---- MODULE Spec2Model ----
(***************************************************************************)
(* World RNG Mix (src/server.js): the multi-provider mixer                 *)
(* computeMixedDigit and the minute scheduler scheduleLoop, as a state     *)
(* machine.  Time is the wall clock in milliseconds counted from a         *)
(* whole-minute epoch; the event loop runs one callback at a time, and an  *)
(* `await` ends a step.                                                    *)
(***************************************************************************)
EXTENDS Integers, Sequences, FiniteSets, TLC

\* ------------------------------------------------------------ bounds
MaxMinute == 2      \* the clock runs until the timer armed at minute MaxMinute is due
MaxRounds == 2      \* timer callbacks of scheduleLoop that are followed
MaxCalls  == 260    \* calls of the Fortuna-like generator that are followed

\* ------------------------------------------------- program constants
MINUTE         == 60000   \* Math.ceil(now/60000)*60000
PREVIEW_OFFSET == 40000   \* nextMinute - 40000
TIMER_SLACK    == 10      \* setTimeout(..., wait+10)
SLICE_LEN      == 64      \* .slice(0,64)
HASH_HEX_LEN   == 64      \* hex digits of a SHA-256 digest
FIRST16        == 16      \* hash.slice(0,16)
RESEED_EVERY   == 100     \* fortuna.requests % 100
COUNTER_LEN    == 16      \* Buffer.alloc(16, 0)
CHACHA_START   == 1       \* chacha.counter: 1
SINGLE_OFFSET  == 34000   \* nextMinute.getTime() - 34000
SINGLE_EPSILON == 1000    \* now.getTime() + 1000

\* ------------------------------------------------------- small helpers
Max(a, b) == IF a > b THEN a ELSE b
Min(a, b) == IF a < b THEN a ELSE b

RECURSIVE SumSeq(_)
SumSeq(s) == IF s = <<>> THEN 0 ELSE (Head(s) + SumSeq(Tail(s))) % 65521

\* ------------------------------------------------------ JavaScript values
\* A JS value is a record [t, v]: t its type, v its content as a sequence of
\* numbers (the characters of a string, the one number of a number).
JsUndef  == [t |-> "undef", v |-> <<>>]
JsNull   == [t |-> "null", v |-> <<>>]
JsStr(s) == [t |-> "str", v |-> s]
JsNum(n) == [t |-> "num", v |-> <<n>>]

\* truthiness, as `if (x)` and `x || y` test it
Truthy(x) ==
    /\ x.t \notin {"undef", "null"}
    /\ ~(x.t = "str" /\ x.v = <<>>)
    /\ ~(x.t = "num" /\ x.v = <<0>>)

\* a || b
OrElse(a, b) == IF Truthy(a) THEN a ELSE b

\* the decimal digits of a natural number, as character codes 48..57
RECURSIVE Decimal(_)
Decimal(n) == IF n < 10 THEN <<48 + n>> ELSE Append(Decimal(n \div 10), 48 + (n % 10))

\* String(x) / x.toString() of a string or a number
ToStr(x) == IF x.t = "num" THEN JsStr(Decimal(x.v[1])) ELSE x

\* s.slice(0, n) of a string
Slice(s, n) == SubSeq(s, 1, Min(n, Len(s)))

\* buf.toString("hex"): two hex digits per byte, as character codes
HexChar(d) == IF d < 10 THEN 48 + d ELSE 87 + d
RECURSIVE ToHex(_)
ToHex(buf) ==
    IF buf = <<>> THEN <<>>
    ELSE <<HexChar(Head(buf) \div 16), HexChar(Head(buf) % 16)>> \o ToHex(Tail(buf))

\* new Date(ms).toISOString(): the fields of the instant (the epoch is a whole minute)
ISO(ms) == [min |-> ms \div 60000, sec |-> (ms % 60000) \div 1000, msec |-> ms % 1000]
IsoChars(ms) == Decimal(ISO(ms).min) \o <<58>> \o Decimal(ISO(ms).sec) \o <<46>> \o Decimal(ISO(ms).msec)

\* ------------------------------------------------ randomness (environment)
\* crypto.randomBytes(n): the buffers the operating system may hand out
RandomDraws == {<<3>>}
\* the buffers drawn once at module load (fortuna.key, chacha.key, chacha.nonce)
LoadDraws == {<<17>>}

\* ------------------------------------------------- Fortuna-like AES-CTR
\* for (i = 15; i >= 0; i--) { buf[i] = (buf[i]+1) & 0xff; if (buf[i] !== 0) break; }
RECURSIVE IncrementFrom(_, _)
IncrementFrom(buf, i) ==
    IF i < 1 THEN buf
    ELSE LET b  == (buf[i] + 1) % 256
             nb == [buf EXCEPT ![i] = b]
         IN  IF b # 0 THEN nb ELSE IncrementFrom(nb, i - 1)

\* lines 22-27 with the loop body left out: the buffer is not changed
IncrementCounterStuck(buf) == buf

IncrementCounter(buf) == IncrementFrom(buf, Len(buf))

\* createCipheriv("aes-256-ctr", key, counter).update(zeros): a fixed function of
\* (key, counter), standing for the AES key stream
AesCtrStream(key, counter) == <<(SumSeq(key) * 7 + SumSeq(counter) * 13 + 5) % 256>>

\* aesCtrNext: the output and the counter it leaves behind
AesCtrNext(key, counter) ==
    [out |-> AesCtrStream(key, counter), counter |-> IncrementCounter(counter)]

\* createHmac("sha256", key).update(extra).digest(): a fixed function of (key, extra)
Hmac(key, extra) == <<(SumSeq(key) * 131 + SumSeq(extra) * 17 + 91) % 256>>

\* lines 34-41 with the rekeying left out
MaybeReseedFortunaNoRekey(f, extra) == [f EXCEPT !.requests = @ + 1]

\* maybeReseedFortuna, extra being the 32 fresh bytes it would draw
MaybeReseedFortuna(f, extra) ==
    LET r == f.requests + 1
    IN  IF r % RESEED_EVERY = 0
        THEN [f EXCEPT !.requests = r, !.key = Hmac(f.key, extra)]
        ELSE [f EXCEPT !.requests = r]

\* line 37: the bytes a call of maybeReseedFortuna may draw (none unless it reseeds)
ReseedDraws(f) == IF (f.requests + 1) % RESEED_EVERY = 0 THEN RandomDraws ELSE {<<>>}

\* ------------------------------------------------------------- ChaCha20
\* chacha20Block(key, counter, nonce): a fixed function of its three inputs,
\* standing for the 20-round block function
Chacha20Block(key, counter, nonce) ==
    <<(SumSeq(key) * 3 + counter * 5 + SumSeq(nonce) + 1) % 256>>

\* ------------------------------------------------------- remote fetches
\* What the network can answer to one GET: status is the fate of the request,
\* fields the designated fields of the JSON body (JsUndef when absent).
Fields == {"outputValue", "round", "signature", "crypto_hash", "random"}
NoFields == [f \in Fields |-> JsUndef]
Response(status, fields) == [status |-> status, fields |-> fields]

FailStatuses == {"timeout", "neterror", "non2xx", "badjson"}

NistResponses ==
    {Response(st, NoFields) : st \in FailStatuses}
    \cup {Response("ok", NoFields),                                             \* field missing
          Response("ok", [NoFields EXCEPT !["outputValue"] = JsNum(7)]),        \* not a string
          Response("ok", [NoFields EXCEPT !["outputValue"] = JsStr(<<65, 66>>)])}

DrandResponses ==
    {Response("timeout", NoFields),
          Response("ok", NoFields),                                             \* shape mismatch
          Response("ok", [NoFields EXCEPT !["crypto_hash"] = JsStr(<<99>>)]),
          Response("ok", [NoFields EXCEPT !["round"] = JsNum(5),
                                          !["signature"] = JsStr(<<100, 101>>)])}

\* fetchWithTimeout: the parsed body, or null on any failure
JsonNull == [null |-> TRUE, fields |-> NoFields]
FetchWithTimeout(resp) ==
    IF resp.status = "ok" THEN [null |-> FALSE, fields |-> resp.fields] ELSE JsonNull

\* fetchNIST: j?.pulse?.outputValue || null
FetchNIST(resp) ==
    LET j == FetchWithTimeout(resp)
    IN  IF j.null THEN JsNull ELSE OrElse(j.fields["outputValue"], JsNull)

\* one URL of fetchDrand: whether it returns, and what
DrandAccepts(j) ==
    /\ ~j.null
    /\ \/ Truthy(j.fields["round"])
       \/ Truthy(j.fields["signature"])
       \/ Truthy(j.fields["crypto_hash"])

\* j?.random || j?.round?.toString() || (j?.signature || null)
DrandValue(j) ==
    LET round == j.fields["round"]
        roundStr == IF round.t \in {"undef", "null"} THEN JsUndef ELSE ToStr(round)
    IN  OrElse(j.fields["random"], OrElse(roundStr, OrElse(j.fields["signature"], JsNull)))

\* fetchDrand over its URLs in order: the first accepted body decides
RECURSIVE FetchDrand(_)
FetchDrand(resps) ==
    IF resps = <<>> THEN JsNull
    ELSE LET j == FetchWithTimeout(Head(resps))
         IN  IF DrandAccepts(j) THEN DrandValue(j) ELSE FetchDrand(Tail(resps))

\* --------------------------------------------------- computeMixedDigit
TagNist     == <<110, 105, 115, 116, 58>>                   \* "nist:"
TagDrand    == <<100, 114, 97, 110, 100, 58>>               \* "drand:"
TagOpenssl  == <<111, 112, 101, 110, 115, 115, 108, 58>>    \* "openssl:"
TagFortuna  == <<102, 111, 114, 116, 117, 110, 97, 58>>     \* "fortuna:"
TagChacha20 == <<99, 104, 97, 99, 104, 97, 50, 48, 58>>     \* "chacha20:"
TagTs       == <<116, 115, 58>>                             \* "ts:"

\* p.startsWith(prefix)
StartsWith(p, prefix) ==
    Len(p) >= Len(prefix) /\ SubSeq(p, 1, Len(prefix)) = prefix

\* parts.some(p => p.startsWith(prefix))
SomeStartsWith(parts, prefix) ==
    \E i \in 1..Len(parts) : StartsWith(parts[i], prefix)

\* parts.join("|")
RECURSIVE Join(_)
Join(parts) ==
    IF parts = <<>> THEN <<>>
    ELSE IF Len(parts) = 1 THEN Head(parts)
    ELSE Head(parts) \o <<124>> \o Join(Tail(parts))

\* createHash("sha256").update(s).digest("hex"): HASH_HEX_LEN hex digits, a
\* fixed function of the whole string, standing for SHA-256.  The string is
\* absorbed character by character, h <- 31 h + c + 1 (mod 32749); Absorb
\* returns the map h |-> a h + b of a whole string as <<a, b>>, halving the
\* string to keep the evaluation shallow.
RECURSIVE Absorb(_)
Absorb(s) ==
    IF Len(s) = 0 THEN <<1, 0>>
    ELSE IF Len(s) = 1 THEN <<31, s[1] + 1>>
    ELSE LET m == Len(s) \div 2
             l == Absorb(SubSeq(s, 1, m))
             r == Absorb(SubSeq(s, m + 1, Len(s)))
         IN  <<(l[1] * r[1]) % 32749, (r[1] * l[2] + r[2]) % 32749>>

Sha256Hex(s) ==
    LET ab == Absorb(s)
        h  == (ab[1] * 7 + ab[2]) % 32749
        nib(i) == CASE i % 4 = 0 -> h \div 4096
                    [] i % 4 = 1 -> (h \div 256) % 16
                    [] i % 4 = 2 -> (h \div 16) % 16
                    [] OTHER     -> h % 16
    IN  [i \in 1..HASH_HEX_LEN |-> (nib(i - 1) + (i - 1) \div 4) % 16]

\* Number(BigInt('0x' + first16) % 10n), digit by digit
RECURSIVE HexMod10(_, _)
HexMod10(acc, hex) ==
    IF hex = <<>> THEN acc ELSE HexMod10((acc * 16 + Head(hex)) % 10, Tail(hex))

\* line 148 without the reduction modulo 10: the last hex digit of first16
DigitOfLastHex(hash) == hash[FIRST16]

DigitOf(hash) == HexMod10(0, SubSeq(hash, 1, FIRST16))

\* lines 128-140 with the ChaCha20 contribution left out
LocalPartsNoChacha(opensslBuf, f, c) ==
    <<TagOpenssl \o ToHex(opensslBuf),
      TagFortuna \o ToHex(AesCtrNext(f.key, f.counter).out)>>

\* lines 128-140 with the Fortuna contribution pushed before the OpenSSL one
LocalPartsFortunaFirst(opensslBuf, f, c) ==
    <<TagFortuna \o ToHex(AesCtrNext(f.key, f.counter).out),
      TagOpenssl \o ToHex(opensslBuf),
      TagChacha20 \o ToHex(Chacha20Block(c.key, c.counter, c.nonce))>>

\* lines 128-140: the three local contributions, given the drawn bytes and the
\* generator states as the call finds them
LocalParts(opensslBuf, f, c) ==
    <<TagOpenssl \o ToHex(opensslBuf),
      TagFortuna \o ToHex(AesCtrNext(f.key, f.counter).out),
      TagChacha20 \o ToHex(Chacha20Block(c.key, c.counter, c.nonce))>>

\* line 143
TsPart(minuteBoundaryMs) == TagTs \o IsoChars(minuteBoundaryMs)

\* lines 145-150 with the number of parts hashed along with them
MixedWithCount(parts) ==
    LET hash == Sha256Hex(Join(parts) \o <<Len(parts)>>)
    IN  [digit |-> DigitOf(hash), hash |-> hash, parts |-> parts]

\* lines 145-150: the result of the mix for a finished parts list
Mixed(parts) ==
    LET hash == Sha256Hex(Join(parts))
    IN  [digit |-> DigitOf(hash), hash |-> hash, parts |-> parts]


\* ------------------------------------------------------- scheduleLoop
\* Math.ceil(now/60000)*60000
CeilMinute(now) == ((now + MINUTE - 1) \div MINUTE) * MINUTE

\* msUntilNextPreview, now being Date.now()
MsUntilNextPreview(now) ==
    LET nextMinute  == CeilMinute(now)
        previewTime == nextMinute - PREVIEW_OFFSET
    IN  previewTime - now

\* lines 165-168, 201: the instant the timer armed at `now` becomes due
ScheduleLoopDue(now) ==
    LET ms   == MsUntilNextPreview(now)
        wait == Max(0, ms)
    IN  now + wait + TIMER_SLACK

Providers == {"openssl", "fortuna", "chacha20", "nist", "drand"}

\* lines 176-181 with the first two tests swapped: drand preferred to nist
PrimaryDrandFirst(parts) ==
    IF SomeStartsWith(parts, TagDrand) THEN "drand"
    ELSE IF SomeStartsWith(parts, TagNist) THEN "nist"
    ELSE "openssl"

\* lines 176-181: the provider the round is counted for
Primary(parts) ==
    IF SomeStartsWith(parts, TagNist) THEN "nist"
    ELSE IF SomeStartsWith(parts, TagDrand) THEN "drand"
    ELSE IF SomeStartsWith(parts, TagOpenssl) THEN "openssl"
    ELSE IF SomeStartsWith(parts, TagFortuna) THEN "fortuna"
    ELSE IF SomeStartsWith(parts, TagChacha20) THEN "chacha20"
    ELSE "openssl"

\* line 183 with the old count dropped: stats[primary] = 1
StatsIncResets(st, primary) == [st EXCEPT ![primary] = 1]

\* line 183: stats[primary] = (stats[primary] || 0) + 1
StatsInc(st, primary) == [st EXCEPT ![primary] = @ + 1]

\* line 186 with the offset of the other program in previewAt
PreviewPayloadOtherOffset(boundary, mixed) ==
    [minuteBoundary |-> ISO(boundary), previewAt |-> ISO(boundary - SINGLE_OFFSET),
     digit |-> mixed.digit, hash |-> mixed.hash]

\* line 186
PreviewPayload(boundary, mixed) ==
    [minuteBoundary |-> ISO(boundary), previewAt |-> ISO(boundary - PREVIEW_OFFSET),
     digit |-> mixed.digit, hash |-> mixed.hash]

\* line 193, from what the reveal timer's closure holds
RevealPayload(t) ==
    [minuteBoundary |-> t.minuteBoundaryISO, revealAt |-> ISO(t.nextMinuteBoundary),
     digit |-> t.digit, hash |-> t.hash]

\* lines 191-197 with the delay left out: setTimeout(..., 0)
RevealTimerNoDelay(id, now_, boundary, mixed) ==
    [id |-> id, due |-> now_,
     minuteBoundaryISO |-> ISO(boundary), nextMinuteBoundary |-> boundary,
     digit |-> mixed.digit, hash |-> mixed.hash]

\* lines 191-197: the reveal timer the round `id` sets at `now`
RevealTimer(id, now_, boundary, mixed) ==
    [id |-> id, due |-> now_ + Max(0, boundary - now_),
     minuteBoundaryISO |-> ISO(boundary), nextMinuteBoundary |-> boundary,
     digit |-> mixed.digit, hash |-> mixed.hash]

\* one io.emit(type, payload); round (history) is the call of computeMixedDigit
\* whose result the callback emitting it holds
Event(type, round, payload) == [type |-> type, round |-> round, payload |-> payload]

\* ---------------------------------------------------------- the clock
\* The instants at which the clock is looked at, besides the instants at which
\* a pending timer becomes due: the whole minutes.
Instants == {m * MINUTE : m \in 1..MaxMinute}
Horizon == MaxMinute * MINUTE + TIMER_SLACK
\* the instant the process starts at: five seconds into the minute of the epoch
StartInstants == {5000}

\* ---------------------------------- the single-source program (lines 218-286)
\* crypto.randomBytes(4): the buffers the operating system may hand out
DigitDraws == {<<0, 0, 0, 7>>, <<0, 0, 1, 0>>, <<255, 255, 255, 255>>}

\* buf.readUInt32BE(0) % m, byte by byte (the 32-bit value itself is not formed)
RECURSIVE UInt32BEMod(_, _, _)
UInt32BEMod(acc, buf, m) ==
    IF buf = <<>> THEN acc ELSE UInt32BEMod((acc * 256 + Head(buf)) % m, Tail(buf), m)

\* lines 236-240
GenerateDigit(buf) == [digit |-> UInt32BEMod(0, buf, 10), provider |-> "openssl"]

\* line 245 without the added second: Math.ceil(now.getTime() / 60000) * 60000
SingleNextMinuteNoEpsilon(now_) == CeilMinute(now_)

\* line 245: Math.ceil((now.getTime() + 1000) / 60000) * 60000
SingleNextMinute(now_) == CeilMinute(now_ + SINGLE_EPSILON)

\* lines 244-274: the round the call made at now_ creates, g being what
\* generateDigit returned, with the due instants of its two timers
SingleRound(now_, g) ==
    LET nextMinute     == SingleNextMinute(now_)
        previewAt      == nextMinute - SINGLE_OFFSET
        delayToPreview == previewAt - now_
        delayToReveal  == nextMinute - now_
    IN  [nextMinute |-> nextMinute, previewAt |-> previewAt,
         digit |-> g.digit, provider |-> g.provider,
         previewDue |-> now_ + Max(0, delayToPreview),
         revealDue |-> now_ + Max(0, delayToReveal)]

\* lines 253-274: the two timers scheduleNextRound sets for round id
SingleTimers(id, r) ==
    {[kind |-> "preview", id |-> id, due |-> r.previewDue],
     [kind |-> "reveal", id |-> id, due |-> r.revealDue]}

\* lines 254-258 and 265-269: the payload of both events of a round
SinglePayload(r) ==
    [minuteBoundary |-> ISO(r.nextMinute), digit |-> r.digit, provider |-> r.provider]

\* the instants the single-source program may be started at: early in a minute,
\* after its preview instant, and within the last second of a minute
SingleStartInstants == {5000, 30000, 59500}

\* the single-source program is not the one running
SingleAbsent == [status |-> "absent", timers |-> {}, rounds |-> <<>>]

\* ------------------------------------------------------------- state
VARIABLES
    now,           \* Date.now()
    pc,            \* where the scheduleLoop chain stands:
                   \*   "init" before server.listen's callback, "armed" preview timer set,
                   \*   "nist" awaiting fetchNIST, "drand" awaiting fetchDrand,
                   \*   "rejected" the timer callback's promise rejected
    timerDue,      \* due instant of the preview timer (when pc = "armed")
    cur,           \* the running timer callback: nextMinuteBoundary and parts so far
    reveals,       \* the reveal timers that are set and have not fired
    stats,         \* line 155
    fortuna,       \* line 21
    chacha,        \* line 82
    events,        \* everything passed to io.emit, in order
    rounds,        \* history: the calls of computeMixedDigit that returned
    failed,        \* history: the calls of computeMixedDigit that threw
    firstArmedAt,  \* history: the instant scheduleLoop was first called
    uses,          \* history: the (key, counter) pairs aesCtrNext has been called with
    single         \* the single-source program (lines 218-286): its timers and rounds

vars == <<now, pc, timerDue, cur, reveals, stats, fortuna, chacha, events, rounds,
          failed, firstArmedAt, uses, single>>

NoCallback == [boundary |-> 0, parts |-> <<>>, nist |-> JsNull]

Init ==
    /\ now \in StartInstants
    /\ pc = "init"
    /\ timerDue = 0
    /\ cur = NoCallback
    /\ reveals = {}
    /\ stats = [p \in Providers |-> 0]
    /\ \E k \in LoadDraws :
          fortuna = [key |-> k, counter |-> [i \in 1..COUNTER_LEN |-> 0], requests |-> 0]
    /\ \E k \in LoadDraws, n \in LoadDraws :
          chacha = [key |-> k, nonce |-> n, counter |-> CHACHA_START]
    /\ events = <<>>
    /\ rounds = <<>>
    /\ failed = <<>>
    /\ firstArmedAt = 0
    /\ uses = <<>>
    /\ single = SingleAbsent

\* lines 213-216: server.listen's callback calls scheduleLoop
Listen ==
    /\ pc = "init"
    /\ pc' = "armed"
    /\ timerDue' = ScheduleLoopDue(now)
    /\ firstArmedAt' = now
    /\ UNCHANGED <<now, cur, reveals, stats, fortuna, chacha, events, rounds, failed,
                   uses, single>>

\* lines 168-173, 121: the preview timer fires; the callback fixes its boundary
\* and computeMixedDigit awaits fetchNIST
PreviewTimerFire ==
    /\ pc = "armed"
    /\ now >= timerDue
    /\ Len(rounds) + Len(failed) < MaxRounds
    /\ pc' = "nist"
    /\ cur' = [boundary |-> CeilMinute(now), parts |-> <<>>, nist |-> JsNull]
    /\ UNCHANGED <<now, timerDue, reveals, stats, fortuna, chacha, events, rounds,
                   failed, firstArmedAt, uses, single>>

\* lines 121-125: fetchNIST resolves; nist.slice throws unless nist is a string;
\* then computeMixedDigit awaits fetchDrand
NistReturn(resp) ==
    /\ pc = "nist"
    /\ LET nist == FetchNIST(resp)
       IN  IF Truthy(nist) /\ nist.t # "str"
           THEN /\ pc' = "rejected"
                /\ failed' = Append(failed, [boundary |-> cur.boundary, cause |-> "nist.slice"])
                /\ cur' = NoCallback
           ELSE /\ pc' = "drand"
                /\ failed' = failed
                /\ cur' = [cur EXCEPT
                             !.nist = nist,
                             !.parts = IF Truthy(nist)
                                       THEN Append(@, TagNist \o Slice(nist.v, SLICE_LEN))
                                       ELSE @]
    /\ UNCHANGED <<now, timerDue, reveals, stats, fortuna, chacha, events, rounds,
                   firstArmedAt, uses, single>>

\* lines 125-150 and 175-201: fetchDrand resolves (its URLs answered r1, r2), the
\* local providers run, the digit is derived, stats is counted, the preview is
\* emitted, the reveal timer is set and scheduleLoop arms the next preview timer.
\* opensslBuf is what crypto.randomBytes(32) returns, extra what a reseed draws.
MixAndPreview(r1, r2, opensslBuf, extra) ==
    /\ pc = "drand"
    /\ LET dr     == FetchDrand(<<r1, r2>>)
           parts2 == IF Truthy(dr)
                     THEN Append(cur.parts, TagDrand \o Slice(ToStr(dr).v, SLICE_LEN))
                     ELSE cur.parts
           f1     == MaybeReseedFortuna(fortuna, extra)
           parts5 == parts2 \o LocalParts(opensslBuf, f1, chacha)
           mixed  == Mixed(Append(parts5, TsPart(cur.boundary)))
           primary == Primary(mixed.parts)
           id     == Len(rounds) + 1
       IN  /\ fortuna' = [f1 EXCEPT !.counter = AesCtrNext(f1.key, f1.counter).counter]
           /\ uses' = Append(uses, [key |-> f1.key, counter |-> f1.counter])
           /\ chacha' = [chacha EXCEPT !.counter = @ + 1]
           /\ stats' = StatsInc(stats, primary)
           /\ events' = Append(events, Event("preview", id, PreviewPayload(cur.boundary, mixed)))
           /\ reveals' = reveals \cup {RevealTimer(id, now, cur.boundary, mixed)}
           /\ rounds' = Append(rounds, [boundary |-> cur.boundary, nist |-> cur.nist,
                                        drand |-> dr, parts |-> mixed.parts,
                                        digit |-> mixed.digit, hash |-> mixed.hash])
    /\ pc' = "armed"
    /\ timerDue' = ScheduleLoopDue(now)
    /\ cur' = NoCallback
    /\ UNCHANGED <<now, failed, firstArmedAt, single>>

\* line 129: crypto.randomBytes throws (the operating system has no entropy);
\* the exception leaves computeMixedDigit and the timer callback
EntropyFailure ==
    /\ pc = "drand"
    /\ pc' = "rejected"
    /\ failed' = Append(failed, [boundary |-> cur.boundary, cause |-> "randomBytes"])
    /\ cur' = NoCallback
    /\ UNCHANGED <<now, timerDue, reveals, stats, fortuna, chacha, events, rounds,
                   firstArmedAt, uses, single>>

\* lines 192-197: a reveal timer fires
RevealFire(t) ==
    /\ t \in reveals
    /\ now >= t.due
    /\ events' = events \o <<Event("reveal", t.id, RevealPayload(t)), Event("stats", t.id, stats)>>
    /\ reveals' = reveals \ {t}
    /\ UNCHANGED <<now, pc, timerDue, cur, stats, fortuna, chacha, rounds, failed,
                   firstArmedAt, uses, single>>

\* lines 204-207, 210: a client connects, or GET /api/stats: stats is read and
\* sent to that one client; nothing changes
Connect ==
    /\ pc # "init"
    /\ UNCHANGED vars

\* the instants the clock may stop at next: those of the grid and the instant the
\* preview timer becomes due, up to the horizon, and the instants at which a
\* reveal timer that is set becomes due
TickTargets ==
    {t \in Instants \cup (IF pc = "armed" THEN {timerDue} ELSE {}) : t > now /\ t <= Horizon}
    \cup {r.due : r \in {q \in reveals : q.due > now}}

\* time passes, up to the next such instant (callbacks may let any number pass)
Tick ==
    /\ TickTargets # {}
    /\ now' = CHOOSE t \in TickTargets : \A u \in TickTargets : t <= u
    /\ UNCHANGED <<pc, timerDue, cur, reveals, stats, fortuna, chacha, events, rounds,
                   failed, firstArmedAt, uses, single>>

\* the actions with their inputs: what the network answers, what the operating
\* system draws, which overdue reveal timer runs
FetchNistResolves == \E resp \in NistResponses : NistReturn(resp)

FetchDrandResolves ==
    \E r1 \in DrandResponses, r2 \in DrandResponses, b \in RandomDraws :
        \E x \in ReseedDraws(fortuna) : MixAndPreview(r1, r2, b, x)

RevealTimerFire == \E t \in reveals : RevealFire(t)

Next ==
    \/ Listen
    \/ PreviewTimerFire
    \/ FetchNistResolves
    \/ FetchDrandResolves
    \/ EntropyFailure
    \/ RevealTimerFire
    \/ Connect
    \/ Tick

Spec == Init /\ [][Next]_vars

\* the clock does not stop, and a timer that is due is run by the event loop
FairSpec == Spec /\ WF_vars(Tick) /\ WF_vars(RevealTimerFire)


\* ------------------------------------- the single-source program: actions
SingleInit ==
    /\ now \in SingleStartInstants
    /\ pc = "absent"
    /\ timerDue = 0
    /\ cur = NoCallback
    /\ reveals = {}
    /\ stats = [p \in Providers |-> 0]
    /\ \E k \in LoadDraws :
          fortuna = [key |-> k, counter |-> [i \in 1..COUNTER_LEN |-> 0], requests |-> 0]
    /\ \E k \in LoadDraws, n \in LoadDraws :
          chacha = [key |-> k, nonce |-> n, counter |-> CHACHA_START]
    /\ events = <<>>
    /\ rounds = <<>>
    /\ failed = <<>>
    /\ firstArmedAt = 0
    /\ uses = <<>>
    /\ single = [status |-> "init", timers |-> {}, rounds |-> <<>>]

\* scheduleNextRound called by `by`, buf being what crypto.randomBytes(4) returns:
\* the round is created with its digit and its two timers are set
ScheduleNextRound(s, by, buf) ==
    LET r  == SingleRound(now, GenerateDigit(buf))
        id == Len(s.rounds) + 1
    IN  [status |-> "running",
         timers |-> s.timers \cup SingleTimers(id, r),
         rounds |-> Append(s.rounds, r @@ [createdBy |-> by, createdAt |-> now])]

\* lines 283-286: server.listen's callback calls scheduleNextRound
SingleListen ==
    /\ single.status = "init"
    /\ \E buf \in DigitDraws : single' = ScheduleNextRound(single, "listen", buf)
    /\ UNCHANGED <<now, pc, timerDue, cur, reveals, stats, fortuna, chacha, events, rounds,
                   failed, firstArmedAt, uses>>

\* the event loop runs the timers that are due in the order of their due instants
SingleRunnable(t) ==
    /\ t \in single.timers
    /\ now >= t.due
    /\ \A u \in single.timers : u.due >= t.due

\* lines 253-260: the preview timer of a round fires
SinglePreviewFire ==
    \E t \in single.timers :
        /\ t.kind = "preview"
        /\ SingleRunnable(t)
        /\ events' = Append(events, Event("preview", t.id, SinglePayload(single.rounds[t.id])))
        /\ single' = [single EXCEPT !.timers = @ \ {t}]
        /\ UNCHANGED <<now, pc, timerDue, cur, reveals, stats, fortuna, chacha, rounds,
                       failed, firstArmedAt, uses>>

\* lines 264-274: the reveal timer of a round fires, and calls scheduleNextRound
SingleRevealFire ==
    \E t \in single.timers :
        /\ t.kind = "reveal"
        /\ SingleRunnable(t)
        /\ events' = Append(events, Event("reveal", t.id, SinglePayload(single.rounds[t.id])))
        /\ \E buf \in DigitDraws :
              single' = ScheduleNextRound([single EXCEPT !.timers = @ \ {t}], "reveal", buf)
        /\ UNCHANGED <<now, pc, timerDue, cur, reveals, stats, fortuna, chacha, rounds,
                       failed, firstArmedAt, uses>>

\* time passes, up to the next whole minute or the next instant a timer is due at
SingleTickTargets ==
    {t \in Instants \cup {u.due : u \in single.timers} : t > now /\ t <= Horizon}

SingleTick ==
    /\ single.status = "running"
    /\ SingleTickTargets # {}
    /\ now' = CHOOSE t \in SingleTickTargets : \A u \in SingleTickTargets : t <= u
    /\ UNCHANGED <<pc, timerDue, cur, reveals, stats, fortuna, chacha, events, rounds,
                   failed, firstArmedAt, uses, single>>

SingleNext ==
    \/ SingleListen
    \/ SinglePreviewFire
    \/ SingleRevealFire
    \/ SingleTick

SingleSpec == SingleInit /\ [][SingleNext]_vars

\* ------------------------ the Fortuna-like generator alone (lines 21-41, 133-134)
\* Only lines 133-134 of the successive calls of computeMixedDigit are followed.
FortunaInit ==
    /\ now \in StartInstants
    /\ pc = "calls"
    /\ timerDue = 0
    /\ cur = NoCallback
    /\ reveals = {}
    /\ stats = [p \in Providers |-> 0]
    /\ \E k \in LoadDraws :
          fortuna = [key |-> k, counter |-> [i \in 1..COUNTER_LEN |-> 0], requests |-> 0]
    /\ \E k \in LoadDraws, n \in LoadDraws :
          chacha = [key |-> k, nonce |-> n, counter |-> CHACHA_START]
    /\ events = <<>>
    /\ rounds = <<>>
    /\ failed = <<>>
    /\ firstArmedAt = 0
    /\ uses = <<>>
    /\ single = SingleAbsent

\* lines 133-134: maybeReseedFortuna(), then aesCtrNext(fortuna.key, fortuna.counter)
FortunaCall ==
    /\ pc = "calls"
    /\ fortuna.requests < MaxCalls
    /\ \E extra \in ReseedDraws(fortuna) :
          LET f1 == MaybeReseedFortuna(fortuna, extra)
          IN  /\ uses' = Append(uses, [key |-> f1.key, counter |-> f1.counter])
              /\ fortuna' = [f1 EXCEPT !.counter = AesCtrNext(f1.key, f1.counter).counter]
    /\ UNCHANGED <<now, pc, timerDue, cur, reveals, stats, chacha, events, rounds, failed,
                   firstArmedAt, single>>

FortunaNext == FortunaCall

FortunaSpec == FortunaInit /\ [][FortunaNext]_vars

\* either program of src/server.js
BothInit == Init \/ SingleInit
BothNext == Next \/ SingleNext
BothSpec == BothInit /\ [][BothNext]_vars

\* ------------------------------------------------- reading the history
PreviewIdx == {i \in 1..Len(events) : events[i].type = "preview"}
RevealIdx  == {i \in 1..Len(events) : events[i].type = "reveal"}
StatsIdx   == {i \in 1..Len(events) : events[i].type = "stats"}

\* the sum of all per-provider counts of a stats object
SumStats(st) == st["openssl"] + st["fortuna"] + st["chacha20"] + st["nist"] + st["drand"]

\* the providers in the priority order of the claims, each with its tag
Priority == <<"nist", "drand", "openssl", "fortuna", "chacha20">>
TagOf(p) ==
    CASE p = "nist"     -> TagNist
      [] p = "drand"    -> TagDrand
      [] p = "openssl"  -> TagOpenssl
      [] p = "fortuna"  -> TagFortuna
      [] p = "chacha20" -> TagChacha20

\* provider p has a contribution in the parts list
Contributed(parts, p) == \E i \in 1..Len(parts) : StartsWith(parts[i], TagOf(p))

\* the first provider, in priority order, with a contribution in the parts list
FirstContributor(parts) ==
    LET k == CHOOSE i \in 1..Len(Priority) :
                 /\ Contributed(parts, Priority[i])
                 /\ \A j \in 1..(i - 1) : ~Contributed(parts, Priority[j])
    IN  Priority[k]

\* the instant an ISO string denotes, in milliseconds
IsoMs(iso) == iso.min * 60000 + iso.sec * 1000 + iso.msec

\* which program is running
MultiRuns  == pc # "absent"
SingleRuns == single.status # "absent"

\* a timer callback of scheduleLoop starts, and calls computeMixedDigit
MixStarts == pc = "armed" /\ pc' = "nist"

\* ---------------------------------------------------------------- C1
\* C1: for every minute boundary B, every preview and every reveal emitted
\* with minuteBoundary = B carry the same digit and the same hash.
C1_SameDigitAndHashPerBoundary ==
    \A i \in PreviewIdx \cup RevealIdx, j \in PreviewIdx \cup RevealIdx :
        events[i].payload.minuteBoundary = events[j].payload.minuteBoundary
        => /\ events[i].payload.digit = events[j].payload.digit
           /\ events[i].payload.hash = events[j].payload.hash

\* ---------------------------------------------------------------- C2
\* C2: at most one preview and at most one reveal are ever emitted with a
\* given minuteBoundary.
C2_ExactlyOncePerBoundary ==
    /\ \A i \in PreviewIdx, j \in PreviewIdx :
          events[i].payload.minuteBoundary = events[j].payload.minuteBoundary => i = j
    /\ \A i \in RevealIdx, j \in RevealIdx :
          events[i].payload.minuteBoundary = events[j].payload.minuteBoundary => i = j

\* ---------------------------------------------------------------- C3
\* C3: computeMixedDigit is never invoked for a new round while the reveal
\* timer of an earlier round is set and has not fired.
C3_NoMixWhileRevealPending == [][MixStarts => reveals = {}]_vars

\* ---------------------------------------------------------------- C4
\* C4: for every boundary B, no preview with minuteBoundary = B is emitted
\* after a reveal with minuteBoundary = B.
C4_NoPreviewAfterReveal ==
    \A i \in RevealIdx, j \in PreviewIdx :
        events[i].payload.minuteBoundary = events[j].payload.minuteBoundary => j < i

\* ---------------------------------------------------------------- C5
\* C5: no scheduled emission is skipped: every whole minute after the instant
\* scheduleLoop was first armed gets its preview.  A callback only ever works
\* for the first whole minute at or after the instant it starts, and the clock
\* does not go back, so a minute that has no preview when a callback starts for
\* a later minute never gets one.  Stated for callbacks that start exactly when
\* their timer is due: whenever such a callback starts, every whole minute
\* between the first arming and the minute it works for has had its preview.
C5_NoBoundarySkipped ==
    [][(MixStarts /\ now = timerDue)
        => \A b \in Instants :
              (firstArmedAt < b /\ b < cur'.boundary)
              => \E i \in PreviewIdx : events[i].payload.minuteBoundary = ISO(b)]_vars

\* ---------------------------------------------------------------- C6
\* C6: when computeMixedDigit raises for a round, scheduleLoop emits neither a
\* preview nor a reveal for that boundary and re-arms itself.
C6_FailureRearms ==
    [][failed' # failed
        => /\ pc' = "armed"
           /\ \A i \in PreviewIdx \cup RevealIdx :
                 events'[i].payload.minuteBoundary # ISO(cur.boundary)]_vars

\* ---------------------------------------------------------------- C7
\* C7: no answer of a remote beacon makes computeMixedDigit raise: the only
\* calls that raise are those in which the local entropy source failed.
C7_RemoteFailureNeverRaises ==
    \A i \in 1..Len(failed) : failed[i].cause = "randomBytes"

\* ---------------------------------------------------------------- C8
RemotesUnavailable(r) == r.nist = JsNull /\ r.drand = JsNull

\* a round in which fetchNIST and fetchDrand both returned null has a digit in
\* 0..9 derived from exactly the openssl, fortuna and chacha20 contributions
\* and the ts tag, its preview has been emitted with that digit, and its reveal
\* has been emitted with it or its reveal timer is set
LocalOnlyRoundsMixed ==
    \A k \in 1..Len(rounds) :
        RemotesUnavailable(rounds[k])
        => LET r == rounds[k]
           IN  /\ r.digit \in 0..9
               /\ Len(r.parts) = 4
               /\ StartsWith(r.parts[1], TagOpenssl)
               /\ StartsWith(r.parts[2], TagFortuna)
               /\ StartsWith(r.parts[3], TagChacha20)
               /\ r.parts[4] = TsPart(r.boundary)
               /\ r.hash = Sha256Hex(Join(r.parts))
               /\ \E i \in PreviewIdx :
                     /\ events[i].round = k
                     /\ events[i].payload.digit = r.digit
                     /\ events[i].payload.hash = r.hash
                     /\ events[i].payload.minuteBoundary = ISO(r.boundary)
               /\ \/ \E i \in RevealIdx :
                        /\ events[i].round = k
                        /\ events[i].payload.digit = r.digit
                        /\ events[i].payload.hash = r.hash
                        /\ events[i].payload.minuteBoundary = ISO(r.boundary)
                  \/ \E t \in reveals :
                        /\ t.id = k
                        /\ t.digit = r.digit
                        /\ t.hash = r.hash
                        /\ t.nextMinuteBoundary = r.boundary

\* once fetchNIST has returned null, whatever fetchDrand returns, the call
\* returns and the preview is emitted in the same step, unless the local
\* entropy source fails
LocalOnlyRoundReturns ==
    [][(pc = "drand" /\ pc' # "drand" /\ cur.nist = JsNull /\ failed' = failed)
        => /\ Len(rounds') = Len(rounds) + 1
           /\ Len(events') = Len(events) + 1
           /\ events'[Len(events')].type = "preview"
           /\ events'[Len(events')].round = Len(rounds')]_vars

\* C8: if fetchNIST and fetchDrand both return null in a round, computeMixedDigit
\* still returns a digit in 0..9 built from the openssl, fortuna and chacha20
\* contributions plus the ts tag, and that round's preview and reveal are both
\* emitted (the reveal eventually, timers being run when due).
C8_LocalOnlyRoundCompletes ==
    /\ []LocalOnlyRoundsMixed
    /\ LocalOnlyRoundReturns
    /\ \A k \in 1..MaxRounds :
          (Len(rounds) >= k /\ RemotesUnavailable(rounds[k]))
          ~> (\E i \in RevealIdx : events[i].round = k)

\* a local-only round whose preview and reveal have both been emitted
C8_Witness ==
    \E k \in 1..Len(rounds) :
        /\ RemotesUnavailable(rounds[k])
        /\ \E i \in PreviewIdx : events[i].round = k
        /\ \E i \in RevealIdx : events[i].round = k

C10_OneCounterPerRound ==
    [][(stats' # stats \/ rounds' # rounds)
        => /\ Len(rounds') = Len(rounds) + 1
           /\ LET p == FirstContributor(rounds'[Len(rounds')].parts)
              IN  /\ stats'[p] = stats[p] + 1
                  /\ \A q \in Providers \ {p} : stats'[q] = stats[q]]_vars

\* rounds counted for nist, for drand and for openssl have all happened
C10_Witness ==
    /\ \E k \in 1..Len(rounds) :
          Contributed(rounds[k].parts, "nist") /\ Contributed(rounds[k].parts, "drand")
    /\ \E k \in 1..Len(rounds) :
          ~Contributed(rounds[k].parts, "nist") /\ Contributed(rounds[k].parts, "drand")
    /\ stats["nist"] = 1 /\ stats["drand"] = 1

\* --------------------------------------------------------------- C11
\* C11: in every round previewAt is the round's boundary minus one fixed offset
\* (40 000 ms in every preview payload of scheduleLoop and in
\* msUntilNextPreview, 34 000 ms in every round of scheduleNextRound), hence
\* strictly earlier than the boundary, whenever the callback ran.
C11_PreviewAtIsBoundaryMinusOffset ==
    /\ MultiRuns
        => \A i \in PreviewIdx :
              /\ IsoMs(events[i].payload.previewAt)
                     = IsoMs(events[i].payload.minuteBoundary) - PREVIEW_OFFSET
              /\ IsoMs(events[i].payload.previewAt) < IsoMs(events[i].payload.minuteBoundary)
              /\ IsoMs(events[i].payload.minuteBoundary) = rounds[events[i].round].boundary
    /\ MultiRuns => MsUntilNextPreview(now) = (CeilMinute(now) - PREVIEW_OFFSET) - now
    /\ \A k \in 1..Len(single.rounds) :
          /\ single.rounds[k].previewAt = single.rounds[k].nextMinute - SINGLE_OFFSET
          /\ single.rounds[k].previewAt < single.rounds[k].nextMinute

\* a preview has been emitted by a callback that ran on a whole minute, for the
\* minute after the one its timer was armed in
C11_Witness ==
    \E i \in PreviewIdx :
        /\ MultiRuns
        /\ rounds[events[i].round].boundary = 2 * MINUTE
        /\ events[i].payload.previewAt = ISO(2 * MINUTE - PREVIEW_OFFSET)

\* --------------------------------------------------------------- C12
\* every preview and every reveal emitted so far carries a digit in 0..9, the
\* digit its round was given
DigitsInRange ==
    \A i \in PreviewIdx \cup RevealIdx :
        /\ events[i].payload.digit \in 0..9
        /\ MultiRuns => /\ events[i].round \in 1..Len(rounds)
                         /\ events[i].payload.digit = rounds[events[i].round].digit
        /\ SingleRuns => /\ events[i].round \in 1..Len(single.rounds)
                          /\ events[i].payload.digit = single.rounds[events[i].round].digit

\* scheduleLoop emits a preview only in the step in which computeMixedDigit
\* returns, and then with the digit it returned
PreviewOnlyAfterMix ==
    [][(MultiRuns /\ Len(events') > Len(events) /\ events'[Len(events')].type = "preview")
        => /\ pc = "drand"
           /\ Len(rounds') = Len(rounds) + 1
           /\ events'[Len(events')].payload.digit = rounds'[Len(rounds')].digit
           /\ rounds'[Len(rounds')].digit = DigitOf(Sha256Hex(Join(rounds'[Len(rounds')].parts)))]_vars

\* C12: every preview and every reveal event of either scheduler carries a digit
\* that is an integer in 0..9; a preview is emitted only after the round's
\* mixing has completed, never with an undefined or partial digit.
C12_DigitAlwaysInRange == []DigitsInRange /\ PreviewOnlyAfterMix

\* scheduleLoop has emitted a preview after a round in which both remote
\* fetches contributed, and its reveal
C12_Witness ==
    \E i \in PreviewIdx, j \in RevealIdx :
        /\ MultiRuns
        /\ events[i].round = events[j].round
        /\ Len(rounds[events[i].round].parts) = 6

\* an event of the given type is emitted in this step
Emits(type) ==
    /\ Len(events') > Len(events)
    /\ \E i \in (Len(events) + 1)..Len(events') : events'[i].type = type

\* the payload of the event of that type emitted in this step
Emitted(type) ==
    events'[CHOOSE i \in (Len(events) + 1)..Len(events') : events'[i].type = type].payload

C14_NoPreviewBeforePreviewAt ==
    [][(MultiRuns /\ Emits("preview"))
        => now >= IsoMs(Emitted("preview").previewAt)]_vars

\* --------------------------------------------------------------- C15
\* C15: a reveal for boundary B is never emitted before the wall-clock instant
\* B, by scheduleLoop or by scheduleNextRound, whenever the round was armed and
\* however long mixing took.
C15_NoRevealBeforeBoundary ==
    [][Emits("reveal") => now >= IsoMs(Emitted("reveal").minuteBoundary)]_vars

\* scheduleLoop has emitted a reveal at the very instant of its boundary, and
\* another reveal timer for that boundary is still to run
C15_Witness ==
    /\ MultiRuns
    /\ \E i \in RevealIdx : IsoMs(events[i].payload.minuteBoundary) = now
    /\ \E t \in reveals : t.nextMinuteBoundary = now

\* --------------------------------------------------------------- C16
\* C16: the boundary a timer callback of scheduleLoop computes from
\* now is a whole minute strictly greater than now, and the smallest such.
C16_BoundaryStrictlyAfterNow ==
    [][MixStarts
        => /\ cur'.boundary % MINUTE = 0
           /\ cur'.boundary > now
           /\ cur'.boundary - MINUTE <= now]_vars

\* --------------------------------------------------------------- C17
\* the counter buffer as a number: its last two bytes, big-endian, the bytes
\* before them being zero
CounterLow(buf) == buf[COUNTER_LEN - 1] * 256 + buf[COUNTER_LEN]
UpperZero(buf) == \A i \in 1..(COUNTER_LEN - 2) : buf[i] = 0

\* a call of computeMixedDigit is in flight
MixInFlight == pc \in {"nist", "drand"}

\* the generators have been advanced once by each call that returned, and by
\* nothing else
AdvancedOncePerCall ==
    /\ fortuna.requests = Len(rounds)
    /\ CounterLow(fortuna.counter) = Len(rounds) /\ UpperZero(fortuna.counter)
    /\ chacha.counter = CHACHA_START + Len(rounds)
    /\ Len(uses) = Len(rounds)
    /\ MixInFlight <=> cur # NoCallback

\* a call starts only when none is in flight, and the generators change only in
\* the step in which the one call in flight returns, each advancing by one
OneMixAtATime ==
    [][/\ MixStarts => (~MixInFlight /\ cur = NoCallback)
       /\ (fortuna' # fortuna \/ chacha' # chacha)
            => /\ pc = "drand"
               /\ Len(rounds') = Len(rounds) + 1
               /\ fortuna'.requests = fortuna.requests + 1
               /\ CounterLow(fortuna'.counter) = CounterLow(fortuna.counter) + 1
               /\ (fortuna'.key # fortuna.key) => fortuna'.requests % RESEED_EVERY = 0
               /\ chacha'.counter = chacha.counter + 1
               /\ chacha'.key = chacha.key /\ chacha'.nonce = chacha.nonce]_vars

\* C17: at most one call of computeMixedDigit is in flight at any time; the
\* Fortuna key, counter and request count and the ChaCha counter are never
\* advanced by two overlapping calls, and each call that returns advances each
\* of them exactly once.
C17_OneMixInFlight == []AdvancedOncePerCall /\ OneMixAtATime

\* a second call is in flight, after the first has returned and advanced the
\* generators, while the first round's reveal timer is still set
C17_Witness ==
    /\ pc = "drand"
    /\ Len(rounds) = 1
    /\ fortuna.requests = 1
    /\ chacha.counter = CHACHA_START + 1
    /\ reveals # {}

\* --------------------------------------------------------------- C18
\* the calls made so far: call k used the counter value k - 1, and the key used
\* changes exactly between call k and call k + 1 with k + 1 a multiple of 100
FortunaHistory ==
    /\ Len(uses) = fortuna.requests
    /\ CounterLow(fortuna.counter) = fortuna.requests /\ UpperZero(fortuna.counter)
    /\ \A k \in 1..Len(uses) :
          /\ CounterLow(uses[k].counter) = k - 1 /\ UpperZero(uses[k].counter)
          /\ k < Len(uses)
               => ((uses[k + 1].key # uses[k].key) <=> ((k + 1) % RESEED_EVERY = 0))
    /\ Len(uses) >= RESEED_EVERY => uses[RESEED_EVERY].key # uses[RESEED_EVERY - 1].key

\* one call: the request count and the counter advance by one, the key is
\* re-derived exactly when the new count is a multiple of 100, and the (key,
\* counter) pair the call uses has not been used before
FortunaStep ==
    [][fortuna' # fortuna
        => /\ fortuna'.requests = fortuna.requests + 1
           /\ CounterLow(fortuna'.counter) = CounterLow(fortuna.counter) + 1
           /\ (fortuna'.key # fortuna.key) <=> (fortuna'.requests % RESEED_EVERY = 0)
           /\ Len(uses') = Len(uses) + 1
           /\ uses'[Len(uses')] = [key |-> fortuna'.key, counter |-> fortuna.counter]
           /\ \A i \in 1..Len(uses) : uses[i] # uses'[Len(uses')]]_vars

ExpectedTags(r) ==
    (IF Truthy(r.nist) THEN <<TagNist>> ELSE <<>>)
    \o (IF Truthy(r.drand) THEN <<TagDrand>> ELSE <<>>)
    \o <<TagOpenssl, TagFortuna, TagChacha20>>

\* C19: the parts list built by computeMixedDigit is, in this order, the tags of
\* the providers that succeeded among nist, drand, openssl, fortuna, chacha20
\* (a remote provider that returned null is skipped, the three local ones are
\* always there), followed by exactly one ts tag with the ISO form of the
\* boundary passed in.
C19_PartsInFixedOrder ==
    \A k \in 1..Len(rounds) :
        LET r    == rounds[k]
            tags == ExpectedTags(r)
        IN  /\ Len(r.parts) = Len(tags) + 1
            /\ \A i \in 1..Len(tags) :
                  /\ StartsWith(r.parts[i], tags[i])
                  /\ ~StartsWith(r.parts[i], TagTs)
            /\ r.parts[Len(r.parts)] = TagTs \o IsoChars(r.boundary)
            /\ Truthy(r.nist) => r.parts[1] = TagNist \o Slice(r.nist.v, SLICE_LEN)

\* one call has returned with both remote contributions and another with the
\* drand contribution only
C19_Witness ==
    /\ \E k \in 1..Len(rounds) : Truthy(rounds[k].nist) /\ Truthy(rounds[k].drand)
    /\ \E k \in 1..Len(rounds) : ~Truthy(rounds[k].nist) /\ Truthy(rounds[k].drand)
                                  /\ Len(rounds[k].parts) = 5

\* --------------------------------------------------------------- C20
\* the events of round k of the single-source scheduler
SingleEventsOf(k, type) == {i \in 1..Len(events) : events[i].type = type /\ events[i].round = k}

\* the rounds created so far: each has at most one preview and one reveal, the
\* preview first, both with the round's digit and minuteBoundary; every round
\* but the last has had both, was followed by a round created in its reveal
\* callback, for a later boundary; timers are set for the last round only
SingleRoundsSequential ==
    /\ Len(single.rounds) >= 1 => single.rounds[1].createdBy = "listen"
    /\ \A t \in single.timers : t.id = Len(single.rounds)
    /\ \A i \in PreviewIdx \cup RevealIdx : events[i].round \in 1..Len(single.rounds)
    /\ \A k \in 1..Len(single.rounds) :
          LET r == single.rounds[k]
              P == SingleEventsOf(k, "preview")
              R == SingleEventsOf(k, "reveal")
          IN  /\ Cardinality(P) <= 1 /\ Cardinality(R) <= 1
              /\ \A i \in P \cup R :
                    /\ events[i].payload.digit = r.digit
                    /\ events[i].payload.minuteBoundary = ISO(r.nextMinute)
              /\ \A j \in R : \E i \in P : i < j
              /\ k < Len(single.rounds)
                   => /\ Cardinality(P) = 1 /\ Cardinality(R) = 1
                      /\ single.rounds[k + 1].createdBy = "reveal"
                      /\ single.rounds[k + 1].nextMinute > r.nextMinute
                      /\ single.rounds[k + 1].createdAt >= r.nextMinute

\* a round, once created, keeps its digit and boundary, and after the first a
\* round is created only in the step that emits the reveal of the round before
SingleRoundCreation ==
    [][/\ \A k \in 1..Len(single.rounds) :
             Len(single'.rounds) >= k /\ single'.rounds[k] = single.rounds[k]
       /\ Len(single'.rounds) <= Len(single.rounds) + 1
       /\ (Len(single'.rounds) > Len(single.rounds) /\ Len(single.rounds) >= 1)
            => /\ Emits("reveal")
               /\ events'[Len(events')].round = Len(single.rounds)]_vars

\* C20: in scheduleNextRound rounds are strictly sequential: the digit is
\* generated once per round, each round emits one preview followed by one reveal
\* with the same digit and minuteBoundary, the next round is created only inside
\* the reveal callback, and the boundaries of successive rounds strictly increase.
C20_SingleRoundsSequential == []SingleRoundsSequential /\ SingleRoundCreation

\* two rounds have been previewed and revealed and the third has been created
C20_Witness ==
    /\ Len(single.rounds) = 3
    /\ Cardinality(SingleEventsOf(1, "reveal")) = 1
    /\ Cardinality(SingleEventsOf(2, "preview")) = 1
    /\ Cardinality(SingleEventsOf(2, "reveal")) = 1

====
